---- MODULE Spec2Model ----
(***************************************************************************)
(* Model of the Avvo scraper (avvo_scraper_direct_to_csv.py) and of the    *)
(* converter it calls (html_to_csv_converter.py), in seven parts, each     *)
(* with its own specification:                                             *)
(*   Spec         scrape_and_convert_to_csv: the pagination walk over the  *)
(*                review listing pages of one profile, the recency cutoff, *)
(*                the merge of the collected reviews into the main         *)
(*                document and the extraction of profile and review list;  *)
(*   SpecFallback the iterative approach of that walk on its own, with     *)
(*                the fairness of its loop;                                *)
(*   SpecRows     the rows save_to_csv_append / save_to_csv build;         *)
(*   SpecBatch    the batch loop of __main__ and the CSV file it writes;   *)
(*   SpecDate     parse_review_date and the converter's date of one text;  *)
(*   SpecExtract  _extract_data_from_soup on one document;                 *)
(*   SpecConfig   the resolution of DAYS_BACK and the cutoff it gives.     *)
(*                                                                         *)
(* Time is counted in half days: a calendar day d parsed from a review     *)
(* header is the instant 2*d (midnight), datetime.now() may fall on noon.  *)
(***************************************************************************)
EXTENDS Integers, Sequences, FiniteSets, TLC

VARIABLES
    pc,                       \* position in scrape_and_convert_to_csv
    days_back,                \* argument days_back (None = no filter)
    now,                      \* datetime.now() of this run
    cutoff_date,              \* cutoff_date (None when the filter is off)
    main_soup,                \* main_soup: the parsed main document
    page_source,              \* driver.page_source: the document the browser shows
    should_stop_main,         \* should_stop_main
    review_page_urls,         \* review_page_urls: sorted list of (page_num, href)
    next_url,                 \* position of the for loop over review_page_urls
    page_num,                 \* page_num of the iterative approach
    consecutive_empty_pages,  \* consecutive_empty_pages of the iterative approach
    all_reviews_html,         \* all_reviews_html: reviews collected on additional pages
    result,                   \* what the function returned: state, data and review list
    profile_page,             \* history: the document served for the profile URL
    discovered,               \* history: the sorted list pagination discovery built
    fetched                   \* history: the additional pages requested, with what came back

\* the batch loop of __main__ and the CSV file it writes
VARIABLES
    url_list,                 \* urls: the list read from the URLs file
    batch_pc,                 \* "loop" in the for loop, "summary" after it
    url_index,                \* i of "for i, url in enumerate(urls, 1)", 0 before the loop
    successful,               \* successful
    failed,                   \* failed
    is_first_url,             \* is_first_url
    csv_file,                 \* OUTPUT_CSV: None when absent, else its rows
    processed                 \* history: per URL what happened and what was written

\* one call of save_to_csv_append / save_to_csv, up to the DataFrame
VARIABLES
    csv_data,                 \* the argument data
    csv_reviews,              \* the argument reviews
    rows                      \* rows, None before the call

\* one call of _extract_data_from_soup
VARIABLES
    document,                 \* the document tree passed in
    extracted                 \* what the call produced: data and reviews, or an exception

\* one call of parse_review_date and the parse of its result's ISO form
VARIABLES
    date_text,                \* the argument date_str
    parsed,                   \* parse_review_date(date_str)
    reparsed,                 \* parse_review_date(parsed.isoformat())
    review_date_out           \* review_data['review_date'] the converter gives for date_str

\* the configuration of a run: DAYS_BACK and the cutoff computed from it
VARIABLES
    argv,                     \* sys.argv[1]: None when absent
    file_lines,               \* the DAYS_BACK lines of the URLs file, in order
    has_urls,                 \* whether the URLs file holds a URL
    config_pc,                \* position in __main__ and in the start of a scrape
    days_back_from_file,      \* second component of read_urls_from_file's result
    DAYS_BACK,                \* DAYS_BACK
    csv_filter_info,          \* csv_filter_info
    compared                  \* a main-page review the cutoff check looked at

scrapeVars == <<pc, days_back, now, cutoff_date, main_soup, page_source, should_stop_main,
                review_page_urls, next_url, page_num, consecutive_empty_pages,
                all_reviews_html, result, profile_page, discovered, fetched>>
batchVars == <<url_list, batch_pc, url_index, successful, failed, is_first_url, csv_file,
               processed>>
rowVars == <<csv_data, csv_reviews, rows>>
extractVars == <<document, extracted>>
dateVars == <<date_text, parsed, reparsed, review_date_out>>
configVars == <<argv, file_lines, has_urls, config_pc, days_back_from_file, DAYS_BACK,
                csv_filter_info, compared>>

vars == <<scrapeVars, batchVars, rowVars, extractVars, dateVars, configVars>>

\* an optional value is the empty tuple or a one-element tuple
None == <<>>
Some(x) == <<x>>

\* ----- bounds of the model ------------------------------------------------
Today == 10               \* the calendar day of the run
MaxMainReviews == 2       \* review containers on the main page
MaxPageReviews == 2       \* review containers on an additional listing page
MaxPage == 3              \* last listing page of the site that can hold reviews
MaxLinks == 1             \* pagination anchors and numbered controls on the main page
MaxPageOfText == 2        \* largest Y of a "Page X of Y" text on the main page

\* ----- program constants --------------------------------------------------
max_empty_pages == 2

\* ----- dates ----------------------------------------------------------------
Midnight(day) == 2 * day
timedelta(days) == 2 * days
\* strftime('%Y-%m-%d'): the calendar day an instant falls on
strftime(at) == at \div 2

\* the formats datetime.strptime is tried with, in order
date_formats == <<"long", "abbr", "slash", "nospace", "iso">>

Unparseable == [fmt |-> "junk", day |-> 0]
ReviewDays == {Today - 1, Today}
DateTexts == {Unparseable} \cup {[fmt |-> "long", day |-> d] : d \in ReviewDays}

Range(s) == {s[i] : i \in DOMAIN s}

parse_review_date(date_str) ==
    IF date_str.fmt \in Range(date_formats) THEN Some(Midnight(date_str.day)) ELSE None

\* A review container is [src, pos, date_str, has_text]: the page and place it
\* came from, the date text of its header "Posted by NAME | DATE", and whether
\* it has a title or body text of its own.
extract_review_date_from_html(review) == parse_review_date(review.date_str)

\* review_date and review_date < cutoff_date
IsTooOld(review, cutoff) ==
    LET review_date == extract_review_date_from_html(review)
    IN  review_date # None /\ review_date[1] < cutoff[1]

\* index of the first review of the list the cutoff rule fires on, 0 if none
FirstTooOld(reviews, cutoff) ==
    LET old == {i \in DOMAIN reviews : IsTooOld(reviews[i], cutoff)}
    IN  IF old = {} THEN 0 ELSE CHOOSE i \in old : \A j \in old : i <= j

RemoveAt(s, i) == SubSeq(s, 1, i - 1) \o SubSeq(s, i + 1, Len(s))

\* ----- documents ------------------------------------------------------------
\* A document is [num, layout, end_text, reviews, nested]: the listing page it
\* is (1 = the profile page, 0 = a blank page), whether a div whose class
\* holds "review" wraps the review containers ("wrapped") or not ("bare"),
\* whether its text says "no reviews", its top-level review containers in
\* document order, and the containers nested inside the first of them.
BlankPage == [num |-> 0, layout |-> "bare", end_text |-> FALSE, reviews |-> <<>>, nested |-> <<>>]

\* soup.find_all('div', class_='client-review'): document order, nested included
find_all(doc) ==
    IF doc.nested = <<>> THEN doc.reviews
    ELSE <<Head(doc.reviews)>> \o doc.nested \o Tail(doc.reviews)

MainKinds == {[date_str |-> d, has_text |-> h] : d \in DateTexts, h \in BOOLEAN}
PageKinds == {[date_str |-> d, has_text |-> TRUE] : d \in DateTexts}

ReviewSeqs(p, n, kinds) ==
    UNION {{[i \in 1..k |-> [src |-> p, pos |-> i, date_str |-> f[i].date_str,
                             has_text |-> f[i].has_text]] : f \in [1..k -> kinds]}
           : k \in 0..n}

MainPages ==
    {[num |-> 1, layout |-> l, end_text |-> FALSE, reviews |-> rs, nested |-> <<>>]
        : l \in {"wrapped", "bare"}, rs \in ReviewSeqs(1, MaxMainReviews, MainKinds)}

\* what the site can serve for ?page=p: pages past MaxPage hold no reviews
ListingPages(p) ==
    {[num |-> p, layout |-> "wrapped", end_text |-> FALSE, reviews |-> rs, nested |-> <<>>]
        : rs \in ReviewSeqs(p, IF p <= MaxPage THEN MaxPageReviews ELSE 0, PageKinds)}
    \cup
    {[num |-> p, layout |-> "wrapped", end_text |-> TRUE, reviews |-> <<>>, nested |-> <<>>]}

\* ----- variants of the code, used to show what each property rests on ------
\* the main-page loop removes the old review but does not set should_stop_main
FilterMainPage_NoStop(soup, cutoff) ==
    LET k == FirstTooOld(soup.reviews, cutoff)
    IN  IF k = 0 THEN [soup |-> soup, stop |-> FALSE]
        ELSE [soup |-> [soup EXCEPT !.reviews = RemoveAt(@, k)], stop |-> FALSE]

\* the review loop skips an old review and goes on to the end of the page
CheckReviews_FinishPage(review_containers, cutoff) ==
    LET k == IF cutoff = None THEN 0 ELSE FirstTooOld(review_containers, cutoff)
    IN  IF k = 0 THEN [added |-> review_containers, should_stop |-> FALSE]
        ELSE [added |-> SelectSeq(review_containers, LAMBDA r : ~IsTooOld(r, cutoff)),
              should_stop |-> TRUE]

\* the final pass stops at the first old review, as the main-page loop does
FinalFilter_FirstOnly(doc, cutoff) ==
    IF cutoff = None THEN doc
    ELSE LET k == FirstTooOld(doc.reviews, cutoff)
         IN  IF k = 0 THEN doc ELSE [doc EXCEPT !.reviews = RemoveAt(@, k)]

\* ----- main-page filtering (cutoff set) ------------------------------------
\* the first too-old review is decomposed, the loop breaks
FilterMainPage(soup, cutoff) ==
    LET k == FirstTooOld(soup.reviews, cutoff)
    IN  IF k = 0 THEN [soup |-> soup, stop |-> FALSE]
        ELSE [soup |-> [soup EXCEPT !.reviews = RemoveAt(@, k)], stop |-> TRUE]

\* ----- review loop over the containers of an additional page -------------
CheckReviews(review_containers, cutoff) ==
    LET k == IF cutoff = None THEN 0 ELSE FirstTooOld(review_containers, cutoff)
    IN  IF k = 0 THEN [added |-> review_containers, should_stop |-> FALSE]
        ELSE [added |-> SubSeq(review_containers, 1, k - 1), should_stop |-> TRUE]

\* ----- combine the collected reviews into the main document ---------------
\* the first selector that matches: the wrapping div, else the first
\* client-review div itself (its class holds "review"), else nothing
FindReviewsSection(soup) ==
    IF soup.layout = "wrapped" THEN "wrapper"
    ELSE IF soup.reviews # <<>> THEN "first_review"
    ELSE "none"

CombineReviews(soup, collected) ==
    IF FindReviewsSection(soup) = "first_review"
    THEN [soup EXCEPT !.nested = @ \o collected]
    ELSE [soup EXCEPT !.reviews = @ \o collected]    \* wrapper.append / body.append

\* html_content before the final pass
FinalHtml(soup, collected, shown) ==
    IF collected # <<>> THEN CombineReviews(soup, collected) ELSE shown

\* ----- final filtering pass ------------------------------------------------
KeepRecent(reviews, cutoff) == SelectSeq(reviews, LAMBDA r : ~IsTooOld(r, cutoff))

\* every too-old container is decomposed, with what is nested in it
FinalFilter(doc, cutoff) ==
    IF cutoff = None THEN doc
    ELSE IF doc.reviews # <<>> /\ IsTooOld(Head(doc.reviews), cutoff)
    THEN [doc EXCEPT !.reviews = KeepRecent(Tail(@), cutoff), !.nested = <<>>]
    ELSE [doc EXCEPT !.reviews = KeepRecent(@, cutoff), !.nested = KeepRecent(@, cutoff)]

\* ----- review extraction (html_to_csv_converter) --------------------------
\* the formats the converter tries on the header date
converter_formats == <<"long", "abbr", "slash", "nospace">>

ReviewDate(date_str) ==
    IF date_str.fmt \in Range(converter_formats) THEN Some(date_str.day) ELSE None

\* container.find('h4') / find('div', class_='client-review-content') search
\* the whole subtree: a container finds the title or text of a nested one
FindsTitleOrText(doc, i) ==
    LET all == find_all(doc)
    IN  all[i].has_text
        \/ (i = 1 /\ \E j \in DOMAIN doc.nested : doc.nested[j].has_text)

ReviewData(review) ==
    [src |-> review.src, pos |-> review.pos, date_str |-> review.date_str,
     review_date |-> ReviewDate(review.date_str)]

RECURSIVE ExtractFrom(_, _)
ExtractFrom(doc, i) ==
    IF i > Len(find_all(doc)) THEN <<>>
    ELSE (IF FindsTitleOrText(doc, i) THEN <<ReviewData(find_all(doc)[i])>> ELSE <<>>)
         \o ExtractFrom(doc, i + 1)

ExtractReviews(doc) == ExtractFrom(doc, 1)

\* data: the profile fields are read from the document handed to the
\* converter; the model keeps which page that document is
ExtractProfile(doc) == [page |-> doc.num]

\* ----- pagination discovery -------------------------------------------------
\* href of a discovered page: "canon" is base_url + "?page=N", "other" is any
\* other spelling of a URL that carries page=N
Hrefs == {"canon", "other"}
Links == {<<p, h>> : p \in 1..MaxPage, h \in Hrefs}

\* Method 1: the anchors whose href holds "page="
Method1(anchors) == anchors

\* Method 2: the pagination controls; one whose href holds "page=" is an anchor
\* of Method 1 and adds the same pair, one with numeric text adds base_url?page=N
Method2(anchors, numbered) == anchors \cup {<<p, "canon">> : p \in numbered}

\* Method 3: "Page X of Y" generates base_url?page=N for N in 2..Y
Method3(max_page) ==
    IF max_page = None THEN {} ELSE {<<p, "canon">> : p \in 2..max_page[1]}

DiscoveredSet(anchors, numbered, max_page) ==
    Method1(anchors) \cup Method2(anchors, numbered) \cup Method3(max_page)

\* sorted([(p, u) for p, u in review_page_urls if p > 1], key=lambda x: x[0]):
\* the order of two entries with the same page number is the set's
SortedPages(urls) ==
    LET kept == {l \in urls : l[1] > 1}
    IN  {s \in [1..Cardinality(kept) -> kept] :
            /\ \A i, j \in DOMAIN s : i # j => s[i] # s[j]
            /\ \A i, j \in DOMAIN s : i < j => s[i][1] <= s[j][1]}

\* ----- the walk over the additional pages ---------------------------------
\* what driver.page_source holds after a driver.get that raised
AfterFailedGet(shown) == {shown, BlankPage}

\* body of the try of the for loop over review_page_urls, for a loaded page:
\* the reviews added, whether should_stop_main is set, whether the loop breaks
PlannedPageOutcome(page, cutoff) ==
    LET checked == CheckReviews(page.reviews, cutoff)
    IN  IF page.reviews # <<>>
        THEN [added |-> checked.added, stop |-> checked.should_stop,
              break |-> checked.should_stop,
              got |-> IF checked.should_stop THEN "old" ELSE "reviews"]
        ELSE [added |-> <<>>, stop |-> FALSE, break |-> TRUE, got |-> "empty"]

\* a page with reviews does not reset consecutive_empty_pages
IterativePageOutcome_NoReset(page, cutoff, count) ==
    LET checked == CheckReviews(page.reviews, cutoff)
    IN  IF page.reviews # <<>>
        THEN [added |-> checked.added, stop |-> checked.should_stop,
              break |-> checked.should_stop, count |-> count,
              got |-> IF checked.should_stop THEN "old" ELSE "reviews"]
        ELSE IF page.end_text
        THEN [added |-> <<>>, stop |-> FALSE, break |-> TRUE, count |-> count, got |-> "end"]
        ELSE [added |-> <<>>, stop |-> FALSE, break |-> count + 1 >= max_empty_pages,
              count |-> count + 1, got |-> "empty"]

\* the except of the while loop breaks, as the except of the for loop does
IterativeErrorOutcome_Break(count) ==
    [added |-> <<>>, stop |-> FALSE, break |-> TRUE, count |-> count, got |-> "error"]

\* the iterative approach starts whenever no old review was met
TryIterative_AfterDiscovery(urls, stop) == ~stop

\* body of the try of the while loop of the iterative approach, for a loaded
\* page: also the new value of consecutive_empty_pages
IterativePageOutcome(page, cutoff, count) ==
    LET checked == CheckReviews(page.reviews, cutoff)
    IN  IF page.reviews # <<>>
        THEN [added |-> checked.added, stop |-> checked.should_stop,
              break |-> checked.should_stop,
              count |-> IF checked.should_stop THEN count ELSE 0,
              got |-> IF checked.should_stop THEN "old" ELSE "reviews"]
        ELSE IF page.end_text
        THEN [added |-> <<>>, stop |-> FALSE, break |-> TRUE, count |-> count, got |-> "end"]
        ELSE [added |-> <<>>, stop |-> FALSE, break |-> count + 1 >= max_empty_pages,
              count |-> count + 1, got |-> "empty"]

\* the except of the while loop does not count the failed page
IterativeErrorOutcome_NoCount(count) ==
    [added |-> <<>>, stop |-> FALSE, break |-> FALSE, count |-> count, got |-> "error"]

\* the except of the while loop: the failed page is counted as an empty one
IterativeErrorOutcome(count) ==
    [added |-> <<>>, stop |-> FALSE, break |-> count + 1 >= max_empty_pages,
     count |-> count + 1, got |-> "error"]

\* if not review_page_urls and not should_stop_main
TryIterative(urls, stop) == urls = <<>> /\ ~stop

\* ----- the run -----------------------------------------------------------------
DaysBackValues == {None, Some(1)}
NowValues == {Midnight(Today) + 1}

Pending == [state |-> "pending", data |-> None, reviews |-> <<>>]

\* the parts of the program a specification does not run stay idle
BatchIdle ==
    /\ url_list = <<>> /\ batch_pc = "idle" /\ url_index = 0 /\ successful = 0 /\ failed = 0
    /\ is_first_url = TRUE /\ csv_file = None /\ processed = <<>>
RowsIdle == csv_data = None /\ csv_reviews = <<>> /\ rows = None
ExtractIdle == document = None /\ extracted = None
DateIdle == date_text = None /\ parsed = None /\ reparsed = None /\ review_date_out = None
ConfigIdle ==
    /\ argv = None /\ file_lines = <<>> /\ has_urls = TRUE /\ config_pc = "idle"
    /\ days_back_from_file = None /\ DAYS_BACK = None /\ csv_filter_info = None
    /\ compared = None

Init ==
    /\ BatchIdle /\ RowsIdle /\ ExtractIdle /\ DateIdle /\ ConfigIdle
    /\ pc = "start"
    /\ days_back \in DaysBackValues
    /\ now \in NowValues
    /\ cutoff_date = None
    /\ main_soup = BlankPage
    /\ page_source = BlankPage
    /\ should_stop_main = FALSE
    /\ review_page_urls = <<>>
    /\ next_url = 1
    /\ page_num = 2
    /\ consecutive_empty_pages = 0
    /\ all_reviews_html = <<>>
    /\ result = Pending
    /\ profile_page = BlankPage
    /\ discovered = <<>>
    /\ fetched = <<>>

\* if days_back: cutoff_date = datetime.now() - timedelta(days=days_back)
CutoffDate(days, at) ==
    IF days # None /\ days[1] # 0 THEN Some(at - timedelta(days[1])) ELSE None

\* driver.get(url) raises: the outer except returns None
MainPageFails ==
    /\ pc = "start"
    /\ pc' = "done"
    /\ result' = [state |-> "failed", data |-> None, reviews |-> <<>>]
    /\ UNCHANGED <<days_back, now, cutoff_date, main_soup, page_source, should_stop_main,
                   review_page_urls, next_url, page_num, consecutive_empty_pages,
                   all_reviews_html, profile_page, discovered, fetched>>
    /\ UNCHANGED <<batchVars, rowVars, extractVars, dateVars, configVars>>

\* the cutoff is computed, the main page is loaded and its reviews are filtered
LoadMainPage ==
    /\ pc = "start"
    /\ \E page \in MainPages :
          LET cutoff == CutoffDate(days_back, now)
              filtered == IF cutoff # None THEN FilterMainPage(page, cutoff)
                          ELSE [soup |-> page, stop |-> FALSE]
          IN  /\ cutoff_date' = cutoff
              /\ page_source' = page
              /\ profile_page' = page
              /\ main_soup' = filtered.soup
              /\ should_stop_main' = filtered.stop
    /\ pc' = "discover"
    /\ UNCHANGED <<days_back, now, review_page_urls, next_url, page_num,
                   consecutive_empty_pages, all_reviews_html, result, discovered, fetched>>
    /\ UNCHANGED <<batchVars, rowVars, extractVars, dateVars, configVars>>

\* the three methods and the sort; the list is dropped when the main page
\* stopped; then the walk to run is chosen
DiscoverPagination ==
    /\ pc = "discover"
    /\ \E anchors \in SUBSET Links, numbered \in SUBSET (1..MaxPage),
          max_page \in {None} \cup {Some(y) : y \in 1..MaxPageOfText} :
          /\ Cardinality(anchors) + Cardinality(numbered) <= MaxLinks
          /\ discovered' \in SortedPages(DiscoveredSet(anchors, numbered, max_page))
    /\ review_page_urls' =
          IF cutoff_date # None /\ should_stop_main THEN <<>> ELSE discovered'
    /\ pc' = IF review_page_urls' # <<>> THEN "load_pages"
             ELSE IF TryIterative(review_page_urls', should_stop_main) THEN "iterative"
             ELSE "combine"
    /\ UNCHANGED <<days_back, now, cutoff_date, main_soup, page_source, should_stop_main,
                   next_url, page_num, consecutive_empty_pages, all_reviews_html,
                   result, profile_page, fetched>>
    /\ UNCHANGED <<batchVars, rowVars, extractVars, dateVars, configVars>>

\* one iteration of "for page_num, page_url in review_page_urls"
LoadReviewPage ==
    /\ pc = "load_pages"
    /\ LET p == review_page_urls[next_url][1]
           AfterLoop(stop) ==
               IF TryIterative(review_page_urls, stop) THEN "iterative" ELSE "combine"
       IN  \/ \* except Exception: break
              /\ page_source' \in AfterFailedGet(page_source)
              /\ fetched' = Append(fetched, [num |-> p, got |-> "error"])
              /\ pc' = AfterLoop(should_stop_main)
              /\ UNCHANGED <<all_reviews_html, should_stop_main, next_url>>
           \/ \E page \in ListingPages(p) :
                 LET out == PlannedPageOutcome(page, cutoff_date)
                 IN  /\ page_source' = page
                     /\ all_reviews_html' = all_reviews_html \o out.added
                     /\ should_stop_main' = (should_stop_main \/ out.stop)
                     /\ fetched' = Append(fetched, [num |-> p, got |-> out.got])
                     /\ next_url' = IF out.break THEN next_url ELSE next_url + 1
                     /\ pc' = IF out.break \/ next_url' > Len(review_page_urls)
                              THEN AfterLoop(should_stop_main') ELSE "load_pages"
    /\ UNCHANGED <<days_back, now, cutoff_date, main_soup, review_page_urls, page_num,
                   consecutive_empty_pages, result, profile_page, discovered>>
    /\ UNCHANGED <<batchVars, rowVars, extractVars, dateVars, configVars>>

\* one iteration of "while consecutive_empty_pages < max_empty_pages"; the
\* site holds no reviews past MaxPage, so the loop never gets past the page
\* MaxPage + max_empty_pages
TryNextPage ==
    /\ pc = "iterative"
    /\ consecutive_empty_pages < max_empty_pages
    /\ page_num <= MaxPage + max_empty_pages
    /\ \E out \in
          {[shown |-> s, o |-> IterativeErrorOutcome(consecutive_empty_pages)]
              : s \in AfterFailedGet(page_source)}
          \cup
          {[shown |-> page,
            o |-> IterativePageOutcome(page, cutoff_date, consecutive_empty_pages)]
              : page \in ListingPages(page_num)} :
          /\ page_source' = out.shown
          /\ all_reviews_html' = all_reviews_html \o out.o.added
          /\ should_stop_main' = (should_stop_main \/ out.o.stop)
          /\ fetched' = Append(fetched, [num |-> page_num, got |-> out.o.got])
          /\ consecutive_empty_pages' = out.o.count
          /\ page_num' = IF out.o.break THEN page_num ELSE page_num + 1
          /\ pc' = IF out.o.break THEN "combine" ELSE "iterative"
    /\ UNCHANGED <<days_back, now, cutoff_date, main_soup, review_page_urls, next_url,
                   result, profile_page, discovered>>
    /\ UNCHANGED <<batchVars, rowVars, extractVars, dateVars, configVars>>

\* the collected reviews are combined into the main document, the final pass
\* filters it, the converter extracts the review list, which is returned
CombineAndExtract ==
    /\ pc = "combine"
    /\ LET html_content == FinalHtml(main_soup, all_reviews_html, page_source)
           final_soup == FinalFilter(html_content, cutoff_date)
       IN  result' = [state |-> "returned", data |-> Some(ExtractProfile(final_soup)),
                      reviews |-> ExtractReviews(final_soup)]
    /\ pc' = "done"
    /\ UNCHANGED <<days_back, now, cutoff_date, main_soup, page_source, should_stop_main,
                   review_page_urls, next_url, page_num, consecutive_empty_pages,
                   all_reviews_html, profile_page, discovered, fetched>>
    /\ UNCHANGED <<batchVars, rowVars, extractVars, dateVars, configVars>>

Next ==
    \/ MainPageFails
    \/ LoadMainPage
    \/ DiscoverPagination
    \/ LoadReviewPage
    \/ TryNextPage
    \/ CombineAndExtract

Spec == Init /\ [][Next]_vars

\* ----- properties -----------------------------------------------------------
Returned == pc = "done" /\ result.state = "returned"
CutoffSet == cutoff_date # None
Last(s) == s[Len(s)]
Id(r) == <<r.src, r.pos>>
Ids(s) == [i \in DOMAIN s |-> Id(s[i])]
WithText(s) == SelectSeq(s, LAMBDA r : r.has_text)
IsReturned(r) == \E j \in DOMAIN result.reviews : Id(result.reviews[j]) = Id(r)
DiscoveryMode == review_page_urls # <<>>
FallbackMode == review_page_urls = <<>> /\ fetched # <<>>
NoFetchError == \A i \in DOMAIN fetched : fetched[i].got # "error"
NoReviews(i) == fetched[i].got \in {"empty", "error"}

\* C1: with a cutoff set, when the k-th review of the sequence "main-page
\* reviews, then the reviews of the walked pages" is the first one older than
\* the cutoff, the returned list is exactly the first k-1 reviews (those with
\* a title or text), whatever follows the k-th, also when it is on the main page.
C1_Expected ==
    LET k == FirstTooOld(profile_page.reviews, cutoff_date)
    IN  IF k > 0 THEN SubSeq(profile_page.reviews, 1, k - 1)
        ELSE profile_page.reviews \o all_reviews_html
C1_CutoffIsPrefix ==
    (/\ Returned /\ CutoffSet /\ NoFetchError
     /\ \/ FirstTooOld(profile_page.reviews, cutoff_date) > 0
        \/ (fetched # <<>> /\ Last(fetched).got = "old"))
    => Ids(result.reviews) = Ids(WithText(C1_Expected))

\* C2: with a cutoff set, no review of the returned list has a header date
\* that parses to a value strictly older than the cutoff.
C2_NoOldReviewReturned ==
    (Returned /\ CutoffSet)
    => \A j \in DOMAIN result.reviews : ~IsTooOld(result.reviews[j], cutoff_date)
\* a main page with an old review that is followed by a review that is kept
C2_Witness ==
    /\ Returned /\ CutoffSet
    /\ FirstTooOld(profile_page.reviews, cutoff_date) \in 1..(Len(profile_page.reviews) - 1)
    /\ result.reviews # <<>>

\* C3: a step that loads an additional page holding a review older than the
\* cutoff collects exactly the reviews of that page before the first such
\* review and sets should_stop_main; once should_stop_main is set no page is
\* requested any more.
C3_EarlyStop ==
    [][/\ (/\ fetched' # fetched /\ Last(fetched').got # "error" /\ CutoffSet
           /\ FirstTooOld(page_source'.reviews, cutoff_date) > 0)
          => /\ all_reviews_html' = all_reviews_html \o
                    SubSeq(page_source'.reviews, 1,
                           FirstTooOld(page_source'.reviews, cutoff_date) - 1)
             /\ should_stop_main'
       /\ should_stop_main => fetched' = fetched]_vars
\* fallback mode: the second page walked starts with an old review that a
\* recent one follows, after reviews were collected on the page before
C3_Witness ==
    /\ Returned /\ CutoffSet /\ FallbackMode
    /\ Len(fetched) = 2 /\ all_reviews_html # <<>>
    /\ Len(page_source.reviews) = 2
    /\ IsTooOld(page_source.reviews[1], cutoff_date)
    /\ ~IsTooOld(page_source.reviews[2], cutoff_date)
    /\ \A i \in DOMAIN all_reviews_html : all_reviews_html[i].src # page_source.num

\* C4: when the cutoff rule fires on a main-page review, no additional page is
\* ever requested, whatever discovery found; when that review is the last one
\* of the main page the returned list is exactly the reviews before it.
C4_StopOnMainPage ==
    (/\ pc # "start" /\ result.state # "failed" /\ CutoffSet
     /\ FirstTooOld(profile_page.reviews, cutoff_date) > 0)
    => /\ fetched = <<>>
       /\ pc \notin {"load_pages", "iterative"}
       /\ (Returned /\ FirstTooOld(profile_page.reviews, cutoff_date) = Len(profile_page.reviews))
          => Ids(result.reviews) =
                Ids(WithText(SubSeq(profile_page.reviews, 1, Len(profile_page.reviews) - 1)))
\* recent review, then old review on the main page; discovery found pages
C4_Witness ==
    /\ Returned /\ CutoffSet
    /\ Len(profile_page.reviews) = 2
    /\ FirstTooOld(profile_page.reviews, cutoff_date) = 2
    /\ discovered # <<>>
    /\ fetched = <<>>
    /\ Len(result.reviews) = 1

\* C5: with a cutoff set, a main-page review with a title or text whose date
\* cannot be parsed, and that no old review precedes, is in the returned list
\* (runs without fetch errors).
C5_FailOpen ==
    (Returned /\ CutoffSet /\ NoFetchError)
    => \A i \in DOMAIN profile_page.reviews :
          LET r == profile_page.reviews[i]
              k == FirstTooOld(profile_page.reviews, cutoff_date)
          IN  (extract_review_date_from_html(r) = None /\ r.has_text /\ (k = 0 \/ i < k))
              => IsReturned(r)

\* C6: with the cutoff disabled, every review (with a title or text) of the
\* main page and every review collected on the walked pages is in the
\* returned list (runs without fetch errors).
C6_NoCutoffCollectsAll ==
    (Returned /\ ~CutoffSet /\ NoFetchError)
    => \A r \in Range(profile_page.reviews) \cup Range(all_reviews_html) :
          r.has_text => IsReturned(r)

C8_DiscoveredPagesSortedAndUnique ==
    /\ \A i \in DOMAIN discovered : discovered[i][1] > 1
    /\ \A i, j \in DOMAIN discovered : i < j => discovered[i][1] < discovered[j][1]
    /\ \A i, j \in DOMAIN fetched : i < j => fetched[i].num # fetched[j].num

TrailingNoReviews ==
    LET bad == {i \in DOMAIN fetched : ~NoReviews(i)}
    IN  Cardinality({i \in DOMAIN fetched : \A b \in bad : b < i})
C10_EmptyDiscoveredPageStops ==
    DiscoveryMode
    => /\ Len(fetched) <= Len(review_page_urls)
       /\ \A i \in DOMAIN fetched :
             /\ fetched[i].num = review_page_urls[i][1]
             /\ fetched[i].got = "empty" => i = Len(fetched)
       /\ (fetched # <<>> /\ Last(fetched).got = "empty") => pc \in {"combine", "done"}
       /\ pc # "iterative" /\ page_num = 2 /\ consecutive_empty_pages = 0
\* two pages discovered, the first has no review containers
C10_Witness ==
    /\ Returned /\ Len(review_page_urls) = 2
    /\ Len(fetched) = 1 /\ fetched[1].got = "empty"

\* C25: whenever a result is returned, every main-page review that has a title
\* or text and is not older than the cutoff is in the returned list, also when
\* pages were requested and nothing was collected on them.
C25_MainPageReviewsKept ==
    Returned => \A r \in Range(profile_page.reviews) :
                   (r.has_text /\ (CutoffSet => ~IsTooOld(r, cutoff_date))) => IsReturned(r)

\* C26: the profile record returned for a URL is extracted from the document
\* served for that URL, never from the document of a page requested later.
C26_ProfileFromMainPage ==
    Returned => result.data = Some([page |-> profile_page.num])

\* ----- the iterative approach on its own -----------------------------------
\* The state in which the while loop is entered: discovery found no page and
\* the main page (here one without reviews) did not stop the walk.
InitFallback ==
    /\ BatchIdle /\ RowsIdle /\ ExtractIdle /\ DateIdle /\ ConfigIdle
    /\ pc = "iterative"
    /\ days_back \in DaysBackValues
    /\ now \in NowValues
    /\ cutoff_date = CutoffDate(days_back, now)
    /\ profile_page \in {p \in MainPages : p.reviews = <<>>}
    /\ main_soup = profile_page
    /\ page_source = profile_page
    /\ should_stop_main = FALSE
    /\ review_page_urls = <<>>
    /\ next_url = 1
    /\ page_num = 2
    /\ consecutive_empty_pages = 0
    /\ all_reviews_html = <<>>
    /\ result = Pending
    /\ discovered = <<>>
    /\ fetched = <<>>

NextFallback == TryNextPage \/ CombineAndExtract

\* an iteration of the while loop ends (driver.get returns or raises) and the
\* next one starts
SpecFallback == InitFallback /\ [][NextFallback]_vars /\ WF_vars(NextFallback)

\* C28: every iteration of the iterative approach requests the page page_num,
\* then either ends the walk or goes on with page_num + 1, whether the page
\* held reviews, held none or failed to load; no page number is requested
\* twice; as the site holds reviews on finitely many pages, the walk ends and
\* the function returns.
C28_FallbackTerminates ==
    /\ [][pc = "iterative" =>
             /\ fetched' = Append(fetched, [num |-> page_num, got |-> Last(fetched').got])
             /\ pc' \in {"iterative", "combine"}
             /\ pc' = "iterative" => page_num' = page_num + 1]_vars
    /\ [](\A i, j \in DOMAIN fetched : i < j => fetched[i].num < fetched[j].num)
    /\ (pc = "iterative") ~> Returned
\* the walk that is as long as the site allows: reviews on the last page that
\* can hold some, then a page that fails to load and a page without reviews
C28_Witness ==
    /\ Returned /\ FallbackMode
    /\ Len(fetched) = MaxPage + max_empty_pages - 1
    /\ fetched[MaxPage - 1].got = "reviews"
    /\ fetched[MaxPage].got = "error"
    /\ fetched[MaxPage + 1].got = "empty"

\* the containers the final pass looks at, and those it leaves
FinalPassInput == find_all(FinalHtml(main_soup, all_reviews_html, page_source))
FinalPassOutput ==
    find_all(FinalFilter(FinalHtml(main_soup, all_reviews_html, page_source), cutoff_date))

\* every review collected during the walk is left in place by the final pass
CollectedSurviveFinalPass ==
    Returned => \A i \in DOMAIN all_reviews_html :
                   \E j \in DOMAIN FinalPassOutput : FinalPassOutput[j] = all_reviews_html[i]

\* C27: every review collected during the walk of the additional pages is
\* left in place by the final pass; the final pass removes only reviews that
\* came from the main page.
C27_FiltersAgree ==
    Returned =>
       /\ \A i \in DOMAIN all_reviews_html :
             \E j \in DOMAIN FinalPassOutput : FinalPassOutput[j] = all_reviews_html[i]
       /\ \A i \in DOMAIN FinalPassInput :
             (\A j \in DOMAIN FinalPassOutput : FinalPassOutput[j] # FinalPassInput[i])
                => FinalPassInput[i].src = profile_page.num

\* C29: the returned list holds the main-page reviews in document order,
\* followed by the collected reviews, which are those of the walked pages in
\* ascending page order, each page's in document order; the merge into the
\* main document neither reorders them nor nests them among the main-page
\* reviews.
C29_ReviewOrder ==
    /\ \A i \in 1..(Len(all_reviews_html) - 1) :
          LET a == all_reviews_html[i]
              b == all_reviews_html[i + 1]
          IN  \/ a.src < b.src
              \/ a.src = b.src /\ b.pos \in {a.pos + 1, 1}
    /\ (Returned /\ all_reviews_html # <<>>)
          => Ids(result.reviews) = Ids(WithText(main_soup.reviews) \o all_reviews_html)

\* ===== the row materializer (save_to_csv_append, save_to_csv) ================
ScrapeIdle ==
    /\ pc = "idle" /\ days_back = None /\ now = 0 /\ cutoff_date = None
    /\ main_soup = BlankPage /\ page_source = BlankPage /\ should_stop_main = FALSE
    /\ review_page_urls = <<>> /\ next_url = 1 /\ page_num = 2
    /\ consecutive_empty_pages = 0 /\ all_reviews_html = <<>> /\ result = Pending
    /\ profile_page = BlankPage /\ discovered = <<>> /\ fetched = <<>>

\* ----- bounds ----------------------------------------------------------------
MaxTextLen == 2           \* characters of a generated text
MaxRowReviews == 2        \* reviews of a list handed to the materializer

\* ----- values ----------------------------------------------------------------
\* A text is a sequence of characters. A field holds None, a string, or an
\* object that is not a string (a number, a list or dict out of a JSON
\* payload), given by the text str() renders it to.
Chars == {"a", " ", "\n"}
Texts == UNION {[1..n -> Chars] : n \in 0..MaxTextLen}
Str(t) == Some([type |-> "str", text |-> t])
Obj(t) == Some([type |-> "obj", text |-> t])
str(v) == [type |-> "str", text |-> v.text]

\* .replace('\n', ' ').replace('\r', ' ')
ReplaceNewlines(t) == [i \in DOMAIN t |-> IF t[i] \in {"\n", "\r"} THEN " " ELSE t[i]]

\* re.sub(r'\s+', ' ', t)
RECURSIVE SqueezeSpaces(_)
SqueezeSpaces(t) ==
    IF Len(t) <= 1 THEN t
    ELSE IF t[1] = " " /\ t[2] = " " THEN SqueezeSpaces(Tail(t))
    ELSE <<t[1]>> \o SqueezeSpaces(Tail(t))

\* .strip()
RECURSIVE strip(_)
strip(t) ==
    IF t = <<>> THEN t
    ELSE IF t[1] = " " THEN strip(Tail(t))
    ELSE IF t[Len(t)] = " " THEN strip(SubSeq(t, 1, Len(t) - 1))
    ELSE t

\* the text cleaning leaves the value as it is
CleanText_Keep(v) == v

\* str(row[field]), newlines replaced, whitespace squeezed, stripped
CleanText(v) ==
    IF v = None THEN None
    ELSE Some([type |-> "str", text |-> strip(SqueezeSpaces(ReplaceNewlines(str(v[1]).text)))])

\* ----- records ---------------------------------------------------------------
ReviewFields ==
    {"reviewer_name", "review_date", "review_rating", "review_title", "review_text",
     "review_type", "review_tooltip", "attorney_response_name",
     "attorney_response_date", "attorney_response_text"}

\* the profile fields the model carries: two that are not cleaned, two that are
ProfileFields ==
    {"attorney_full_name", "profile_url", "nomenclature_source", "biography", "retainer_info"}

\* text_fields, as far as the model carries them
text_fields ==
    {"review_text", "review_title", "attorney_response_text", "biography", "retainer_info"}

NoReview == [f \in ReviewFields |-> None]

\* a review as the converter builds it, with the given title and text
ReviewOf(title, text) ==
    [NoReview EXCEPT !["reviewer_name"] = Str(<<"a">>),
                     !["review_rating"] = Obj(<<"5">>),
                     !["review_title"] = title,
                     !["review_text"] = text]

ProfileOf(name, url, bio, retainer) ==
    [f \in ProfileFields |->
        CASE f = "attorney_full_name" -> name
          [] f = "profile_url" -> url
          [] f = "nomenclature_source" -> Str(<<"avvo">>)
          [] f = "biography" -> bio
          [] f = "retainer_info" -> retainer]

\* review.get(field)
get(d, f) == IF f \in DOMAIN d THEN d[f] ELSE None

\* row = data.copy(), then the ten review fields are set
RowOf(data, review) ==
    [f \in DOMAIN data \cup ReviewFields |->
        IF f \in ReviewFields THEN get(review, f) ELSE data[f]]

CleanRow(row) ==
    [f \in DOMAIN row |-> IF f \in text_fields THEN CleanText(row[f]) ELSE row[f]]

\* no row is built for an empty review list
Materialize_SkipEmpty(data, review_seq) ==
    [i \in DOMAIN review_seq |-> CleanRow(RowOf(data, review_seq[i]))]

\* rows: one per review, or one with empty review fields; then the cleaning
Materialize(data, review_seq) ==
    IF review_seq # <<>>
    THEN [i \in DOMAIN review_seq |-> CleanRow(RowOf(data, review_seq[i]))]
    ELSE <<CleanRow(RowOf(data, NoReview))>>

\* ----- inputs ----------------------------------------------------------------
NameValues == {None, Str(<<"a">>), Str(<<"a", "\n", " ", "a">>)}
TextValues == {None} \cup {Str(t) : t \in Texts}
RetainerValues == {None, Obj(<<"a">>)}
RowProfiles ==
    {ProfileOf(n, Str(<<"u">>), b, r) : n \in NameValues, b \in TextValues, r \in RetainerValues}
\* match.group(1).strip() of "Posted by NAME | DATE": the header text keeps the
\* whitespace inside a text node, so a name may hold a run of spaces
PostedBy(name, review) == [review EXCEPT !["reviewer_name"] = name]
RowReviews ==
    {ReviewOf(None, Str(<<"a">>)), ReviewOf(Str(<<"a">>), Str(<<"a", "\n", "a">>)),
     ReviewOf(Str(<<" ", "a">>), None),
     PostedBy(Str(<<"a", " ", " ", "a">>), ReviewOf(Str(<<"a">>), Str(<<"a">>)))}
RowReviewLists == UNION {[1..n -> RowReviews] : n \in 0..MaxRowReviews}

InitRows ==
    /\ ScrapeIdle /\ BatchIdle /\ ExtractIdle /\ DateIdle /\ ConfigIdle
    /\ csv_data \in {Some(p) : p \in RowProfiles}
    /\ csv_reviews \in RowReviewLists
    /\ rows = None

\* the rows are built and cleaned
BuildRows ==
    /\ rows = None
    /\ rows' = Some(Materialize(csv_data[1], csv_reviews))
    /\ UNCHANGED <<csv_data, csv_reviews, scrapeVars, batchVars, extractVars, dateVars, configVars>>

NextRows == BuildRows

SpecRows == InitRows /\ [][NextRows]_vars

\* ----- properties of the materializer ---------------------------------------
RowsBuilt == rows # None
Max(a, b) == IF a >= b THEN a ELSE b

\* the words of a text: its maximal runs of characters other than whitespace
RECURSIVE Words(_)
Words(t) ==
    IF t = <<>> THEN <<>>
    ELSE IF t[1] \in {" ", "\n", "\r"} THEN Words(Tail(t))
    ELSE LET rest == Words(Tail(t))
         IN  IF Len(t) > 1 /\ t[2] \notin {" ", "\n", "\r"}
             THEN <<(<<t[1]>> \o Head(rest))>> \o Tail(rest)
             ELSE <<(<<t[1]>>)>> \o rest

\* no line break, no two spaces in a row, no space at either end
IsNormalized(t) ==
    /\ \A i \in DOMAIN t : t[i] \notin {"\n", "\r"}
    /\ \A i \in 1..(Len(t) - 1) : ~(t[i] = " " /\ t[i + 1] = " ")
    /\ t # <<>> => (t[1] # " " /\ t[Len(t)] # " ")

\* w is v as a string with its whitespace normalized (None stays None)
IsCleaned(w, v) ==
    IF v = None THEN w = None
    ELSE /\ w # None /\ w[1].type = "str"
         /\ IsNormalized(w[1].text)
         /\ Words(w[1].text) = Words(v[1].text)

\* C11 as stated: max(1, len(reviews)) rows; the i-th row holds the ten fields
\* of the i-th review; for an empty list the ten review fields are None.
C11_RowsCarryReviews ==
    RowsBuilt =>
       /\ Len(rows[1]) = Max(1, Len(csv_reviews))
       /\ csv_reviews # <<>> =>
             \A i \in DOMAIN rows[1] : \A f \in ReviewFields :
                rows[1][i][f] = csv_reviews[i][f]
       /\ csv_reviews = <<>> => \A f \in ReviewFields : rows[1][1][f] = None
\* C11 as amended: the same, but review_title, review_text and
\* attorney_response_text are carried as strings with line breaks replaced by
\* spaces, whitespace runs squeezed and the ends stripped.
C11_RowsCarryCleanedReviews ==
    RowsBuilt =>
       /\ Len(rows[1]) = Max(1, Len(csv_reviews))
       /\ csv_reviews # <<>> =>
             \A i \in DOMAIN rows[1] : \A f \in ReviewFields :
                IF f \in text_fields THEN IsCleaned(rows[1][i][f], csv_reviews[i][f])
                ELSE rows[1][i][f] = csv_reviews[i][f]
       /\ csv_reviews = <<>> => \A f \in ReviewFields : rows[1][1][f] = None
\* rows were built for an empty list
C11_WitnessEmpty == RowsBuilt /\ csv_reviews = <<>> /\ Len(rows[1]) = 1
\* rows were built for two different reviews, one with a line break in its text
C11_Witness ==
    /\ RowsBuilt /\ Len(csv_reviews) = 2 /\ csv_reviews[1] # csv_reviews[2]
    /\ rows[1][2]["review_text"] # csv_reviews[2]["review_text"]

\* C12 as stated: in every row every profile field equals the field of p.
C12_ProfileBroadcastExact ==
    RowsBuilt => \A i \in DOMAIN rows[1] : \A f \in ProfileFields :
                    rows[1][i][f] = csv_data[1][f]
\* C12 as amended: in every row every profile field outside text_fields equals
\* the field of p, line breaks included; a field of text_fields that is None
\* stays None, any other value is carried as a string with line breaks
\* replaced by spaces, whitespace runs squeezed and the ends stripped; all rows
\* hold the same profile fields.
C12_ProfileBroadcastCleaned ==
    RowsBuilt =>
       /\ \A i \in DOMAIN rows[1] : \A f \in ProfileFields :
             IF f \in text_fields THEN IsCleaned(rows[1][i][f], csv_data[1][f])
             ELSE rows[1][i][f] = csv_data[1][f]
       /\ \A i, j \in DOMAIN rows[1] : \A f \in ProfileFields :
             rows[1][i][f] = rows[1][j][f]
\* two rows; the name holds a line break, the biography whitespace to clean,
\* retainer_info is not a string
C12_Witness ==
    /\ RowsBuilt /\ Len(rows[1]) = 2
    /\ csv_data[1]["attorney_full_name"] = Str(<<"a", "\n", " ", "a">>)
    /\ csv_data[1]["biography"] = Str(<<"\n", "a">>)
    /\ csv_data[1]["retainer_info"] = Obj(<<"a">>)
    /\ rows[1][2]["biography"] = Str(<<"a">>)
    /\ rows[1][2]["retainer_info"] = Str(<<"a">>)

\* the fields of a row that hold free text
free_text_fields ==
    {"attorney_full_name", "biography", "retainer_info", "reviewer_name", "review_title",
     "review_text", "review_type", "review_tooltip", "attorney_response_name",
     "attorney_response_text"}

\* no line break or tab, no two whitespace characters in a row
NoBreakNoRun(t) ==
    /\ \A i \in DOMAIN t : t[i] \notin {"\n", "\r", "\t"}
    /\ \A i \in 1..(Len(t) - 1) : ~(t[i] = " " /\ t[i + 1] = " ")

\* C21: in every row built, every free-text field (the attorney's name and
\* the reviewer's name as well as title, text, biography and retainer
\* information) holds no line break or tab and no run of two or more
\* whitespace characters.
C21_TextNormalized ==
    RowsBuilt => \A i \in DOMAIN rows[1] : \A f \in free_text_fields :
                    rows[1][i][f] # None => NoBreakNoRun(rows[1][i][f][1].text)

\* ===== the batch loop of __main__ and the output file ========================
\* ----- bounds ----------------------------------------------------------------
MaxUrls == 3              \* URLs of the URLs file
MaxBatchReviews == 2      \* reviews extracted for one profile of a batch

\* ----- the CSV file ----------------------------------------------------------
\* A line of the file gives the text of each column; None is written as the
\* empty text. The header line gives each column its name.
Columns == ProfileFields \cup ReviewFields
Cell(v) == IF v = None THEN <<>> ELSE v[1].text
HeaderLine == [c \in Columns |-> <<c>>]
LineOf(row) == [c \in Columns |-> Cell(row[c])]

\* pd.DataFrame([{col: '' for col in existing_df.columns}])
blank_row(header) == [c \in DOMAIN header |-> <<>>]

\* any existing file is appended to, first URL or not
AppendMode_IfExists(exists, first) == exists

\* if os.path.exists(output_csv_path) and not is_first_url
AppendMode(exists, first) == exists /\ ~first

\* the file after save_to_csv_append(data, reviews, OUTPUT_CSV, is_first_url)
save_to_csv_append(file, data, review_seq, first) ==
    LET built == Materialize(data, review_seq)
        df == [i \in DOMAIN built |-> LineOf(built[i])]
    IN  IF AppendMode(file # None, first)
        THEN Some(file[1] \o <<blank_row(file[1][1])>> \o df)
        ELSE Some(<<HeaderLine>> \o df)

\* ----- one profile -----------------------------------------------------------
\* The final document of a profile, as far as the batch depends on it: whether
\* it holds h1.profile-name, whether it holds the canonical link, and how many
\* reviews are extracted from it.
BatchDocs ==
    {[has_name |-> n, has_url |-> u, review_count |-> k]
        : n \in BOOLEAN, u \in BOOLEAN, k \in 0..MaxBatchReviews}

\* data, reviews = extract_profile_data_from_html(html_content, ...)
DataOf(doc) ==
    ProfileOf(IF doc.has_name THEN Str(<<"a">>) ELSE None,
              IF doc.has_url THEN Str(<<"u">>) ELSE None, None, None)
ReviewsOf(doc) == [i \in 1..doc.review_count |-> ReviewOf(None, Str(<<"a">>))]

\* "not data" for a dict: true of the empty dict only
Falsy(data) == DOMAIN data = {}

\* what scrape_and_convert_to_csv returns for a final document
ScrapeResult(doc) ==
    IF Falsy(DataOf(doc)) THEN None ELSE Some([data |-> DataOf(doc), reviews |-> ReviewsOf(doc)])

\* an exception raised in the try of the loop ends the batch
AfterUrl_Propagate(raised, i, n) ==
    IF raised THEN "crashed" ELSE IF i = n THEN "summary" ELSE "loop"

\* where the program is after the i-th of n URLs: "except Exception" keeps an
\* exception inside the iteration
AfterUrl(raised, i, n) == IF i = n THEN "summary" ELSE "loop"

\* ----- the run ---------------------------------------------------------------
\* a file left by an earlier run
OldFile == Some(<<HeaderLine, LineOf(RowOf(DataOf([has_name |-> TRUE, has_url |-> TRUE,
                                                  review_count |-> 0]), NoReview))>>)

InitBatch ==
    /\ ScrapeIdle /\ RowsIdle /\ ExtractIdle /\ DateIdle /\ ConfigIdle
    /\ url_list \in {[i \in 1..n |-> i] : n \in 1..MaxUrls}
    /\ batch_pc = "loop"
    /\ url_index = 0
    /\ successful = 0
    /\ failed = 0
    /\ is_first_url = TRUE
    /\ csv_file \in {None, OldFile}
    /\ processed = <<>>

\* one iteration of "for i, url in enumerate(urls, 1)": the scrape returns
\* None (its own except caught a failure), or an exception leaves the try of
\* the loop, or the scrape returns data and reviews, which are saved
ProcessUrl ==
    /\ batch_pc = "loop"
    /\ url_index < Len(url_list)
    /\ url_index' = url_index + 1
    /\ \/ /\ failed' = failed + 1
          /\ processed' = Append(processed, [url |-> url_list[url_index'], doc |-> None,
                                             outcome |-> "none", lines |-> <<>>])
          /\ batch_pc' = AfterUrl(FALSE, url_index', Len(url_list))
          /\ UNCHANGED <<successful, is_first_url, csv_file>>
       \/ /\ failed' = failed + 1
          /\ processed' = Append(processed, [url |-> url_list[url_index'], doc |-> None,
                                             outcome |-> "raised", lines |-> <<>>])
          /\ batch_pc' = AfterUrl(TRUE, url_index', Len(url_list))
          /\ UNCHANGED <<successful, is_first_url, csv_file>>
       \/ \E doc \in BatchDocs :
             LET scraped == ScrapeResult(doc)
             IN  /\ batch_pc' = AfterUrl(FALSE, url_index', Len(url_list))
                 /\ IF scraped # None
                    THEN /\ csv_file' = save_to_csv_append(csv_file, scraped[1].data,
                                                           scraped[1].reviews, is_first_url)
                         /\ is_first_url' = FALSE
                         /\ successful' = successful + 1
                         /\ failed' = failed
                         /\ processed' = Append(processed,
                               [url |-> url_list[url_index'], doc |-> Some(doc),
                                outcome |-> "saved",
                                lines |-> SubSeq(csv_file'[1],
                                                 Len(csv_file'[1]) - Max(1, doc.review_count) + 1,
                                                 Len(csv_file'[1]))])
                    ELSE /\ failed' = failed + 1
                         /\ processed' = Append(processed,
                               [url |-> url_list[url_index'], doc |-> Some(doc),
                                outcome |-> "none", lines |-> <<>>])
                         /\ UNCHANGED <<successful, is_first_url, csv_file>>
    /\ UNCHANGED <<url_list, scrapeVars, rowVars, extractVars, dateVars, configVars>>

NextBatch == ProcessUrl

SpecBatch == InitBatch /\ [][NextBatch]_vars

\* ----- properties of the batch -----------------------------------------------
BlankLine == [c \in Columns |-> <<>>]
CountLines(file, line) == Cardinality({i \in DOMAIN file : file[i] = line})

C14_BatchIsolation ==
    /\ batch_pc \in {"loop", "summary"}
    /\ batch_pc = "summary" <=> url_index = Len(url_list)
    /\ Len(processed) = url_index
    /\ \A i \in DOMAIN processed : processed[i].url = url_list[i]
    /\ successful + failed = url_index
    /\ successful = Cardinality({i \in DOMAIN processed : processed[i].outcome = "saved"})
\* three URLs: the scrape of the first returned None, the second raised, the
\* third was saved
C14_Witness ==
    /\ batch_pc = "summary" /\ Len(url_list) = 3
    /\ processed[1].outcome = "none" /\ processed[2].outcome = "raised"
    /\ processed[3].outcome = "saved"
    /\ successful = 1 /\ failed = 2

\* C15: a URL whose final document holds neither a profile name nor a profile
\* URL is a failed one: nothing is written for it and it is not counted as
\* successful.
C15_AnonymousProfileFails ==
    \A i \in DOMAIN processed :
       (/\ processed[i].doc # None
        /\ ~processed[i].doc[1].has_name /\ ~processed[i].doc[1].has_url)
       => processed[i].outcome = "none" /\ processed[i].lines = <<>>

\* ===== parse_review_date and the ISO form of its result ======================
\* the texts handed to parse_review_date: a date of one calendar day written in
\* one of the five formats, the isoformat() text of a datetime, other text
DateShapes == Range(date_formats) \cup {"isoformat", "junk"}
DateInputs == {[fmt |-> f, day |-> d] : f \in DateShapes, d \in 1..Today}

\* datetime.isoformat() of a parsed date: "YYYY-MM-DDT00:00:00"
isoformat(dt) == [fmt |-> "isoformat", day |-> dt \div 2]

InitDate ==
    /\ ScrapeIdle /\ BatchIdle /\ RowsIdle /\ ExtractIdle /\ ConfigIdle
    /\ date_text \in {Some(x) : x \in DateInputs}
    /\ parsed = None
    /\ reparsed = None
    /\ review_date_out = None

\* parsed = parse_review_date(x)
ParseDate ==
    /\ parsed = None
    /\ parsed' = Some(parse_review_date(date_text[1]))
    /\ UNCHANGED <<date_text, reparsed, review_date_out, scrapeVars, batchVars, rowVars,
                   extractVars, configVars>>

\* reparsed = parse_review_date(parsed.isoformat()), for an x that parsed
ParseIsoForm ==
    /\ parsed # None /\ parsed[1] # None
    /\ reparsed = None
    /\ reparsed' = Some(parse_review_date(isoformat(parsed[1][1])))
    /\ UNCHANGED <<date_text, parsed, review_date_out, scrapeVars, batchVars, rowVars,
                   extractVars, configVars>>

\* the converter parses the same header date text for the output row
ExtractReviewDate ==
    /\ review_date_out = None
    /\ review_date_out' = Some(ReviewDate(date_text[1]))
    /\ UNCHANGED <<date_text, parsed, reparsed, scrapeVars, batchVars, rowVars, extractVars,
                   configVars>>

NextDate == ParseDate \/ ParseIsoForm \/ ExtractReviewDate

SpecDate == InitDate /\ [][NextDate]_vars

\* C17: for a text x that parses, parsing the ISO form of the result gives
\* the result again.
C17_ParseDateIdempotent ==
    reparsed # None => reparsed[1] = parsed[1]

\* C24: the review_date of the output is the ISO date of what
\* parse_review_date parses from the same header date text, and it is None
\* only when parse_review_date returns None.
C24_DateAgreement ==
    (parsed # None /\ review_date_out # None)
    => review_date_out[1] = IF parsed[1] = None THEN None ELSE Some(strftime(parsed[1][1]))

\* ===== _extract_data_from_soup (html_to_csv_converter) =======================
\* ----- bounds ----------------------------------------------------------------
MaxTokens == 5            \* dash-separated tokens of a profile identifier
MaxDocReviews == 2        \* review containers of a document handed to the converter

\* ----- text operations of the identifier -----------------------------------
\* characters: "j" a lower-case letter, "J" its upper case, "9" a digit
Upper(c) == IF c = "j" THEN "J" ELSE c
Lower(c) == IF c = "J" THEN "j" ELSE c
IsCased(c) == c \in {"j", "J"}

\* str.upper()
upper(t) == [i \in DOMAIN t |-> Upper(t[i])]

\* str.title(): a letter after a character that is no letter is upper-cased,
\* every other letter lower-cased
title(t) ==
    [i \in DOMAIN t |-> IF i = 1 \/ ~IsCased(t[i - 1]) THEN Upper(t[i]) ELSE Lower(t[i])]

\* sep.join(parts)
RECURSIVE join(_, _)
join(sep, parts) ==
    IF parts = <<>> THEN <<>>
    ELSE IF Len(parts) = 1 THEN parts[1]
    ELSE parts[1] \o <<sep>> \o join(sep, Tail(parts))

\* t.split(sep)
RECURSIVE split(_, _)
split(t, sep) ==
    IF \A i \in DOMAIN t : t[i] # sep THEN <<t>>
    ELSE LET k == CHOOSE i \in DOMAIN t : t[i] = sep /\ \A j \in 1..(i - 1) : t[j] # sep
         IN  <<SubSeq(t, 1, k - 1)>> \o split(SubSeq(t, k + 1, Len(t)), sep)

\* .replace('-', ' ')
ReplaceDashes(t) == [i \in DOMAIN t |-> IF t[i] = "-" THEN " " ELSE t[i]]

\* ----- the document ----------------------------------------------------------
\* What _extract_data_from_soup looks for, each None when the element is not
\* in the document:
\*   canonical         the href of link rel=canonical: [attorney, id]
\*   score_elem        span.aggregated-ratings-count: [valid, value] of float(text)
\*   count_elem        p.aggregated-ratings-description: [matched, value]
\*   avvo_elem         span.avvo-rating-count: [matched, valid, value]
\*   payload           div#payload: [valid, reviewScore, reviews, rating]
\*   json_ld           the first LocalBusiness script: [ratingValue, reviewCount,
\*                     makesOffer, sameAs]
\*   cta_website, contact_website   href of a.cta-website, a.contact-website
\*   fees_retainer     the retainer paragraph of the fees section
\*   containers        the div.client-review containers, in document order
\* A JSON key is None when absent, Some(None) when null, Some(Some(v)) else.
DefaultDoc ==
    [canonical |-> None, score_elem |-> None, count_elem |-> None, avvo_elem |-> None,
     payload |-> None, json_ld |-> None, cta_website |-> None, contact_website |-> None,
     fees_retainer |-> None, containers |-> <<>>]

NoPayload == [valid |-> TRUE, reviewScore |-> None, reviews |-> None, rating |-> None]
NoLocalBusiness == [ratingValue |-> None, reviewCount |-> None, makesOffer |-> None,
                    sameAs |-> None]

\* ----- nomenclature ------------------------------------------------------------
NoNomenclature ==
    [nomenclature_id |-> None, nomenclature_zip_code |-> None,
     nomenclature_state_code |-> None, nomenclature_name |-> None,
     nomenclature_profile_id |-> None]

\* re.search(r'/attorneys/([^/]+)\.html', profile_url) and the split of the id
Nomenclature(profile_url) ==
    IF profile_url = None \/ ~profile_url[1].attorney \/ profile_url[1].id = <<>>
    THEN NoNomenclature
    ELSE LET nomenclature_id == profile_url[1].id
             parts == split(nomenclature_id, "-")
             name_parts == SubSeq(parts, 3, Len(parts) - 1)
         IN  IF Len(parts) >= 4
             THEN [nomenclature_id |-> Some(nomenclature_id),
                   nomenclature_zip_code |-> Some(parts[1]),
                   nomenclature_state_code |-> Some(upper(parts[2])),
                   nomenclature_name |->
                       IF name_parts # <<>>
                       THEN Some(title(ReplaceDashes(join(" ", name_parts))))
                       ELSE None,
                   nomenclature_profile_id |-> Some(parts[Len(parts)])]
             ELSE [NoNomenclature EXCEPT !.nomenclature_id = Some(nomenclature_id)]

\* ----- scalar fields with several sources ------------------------------------
\* href and not href.startswith('#') and not href.startswith('https://www.avvo.com')
UsableHref(href) == href # None /\ href[1] \notin {"", "#", "avvo"}

website_from_links(doc) ==
    IF UsableHref(doc.cta_website) THEN doc.cta_website
    ELSE IF UsableHref(doc.contact_website) THEN doc.contact_website
    ELSE None

\* a JSON source sets the field when its key is present, whatever the value
Override(current, key) == IF key # None THEN key[1] ELSE current

ValidPayload(doc) == IF doc.payload # None /\ doc.payload[1].valid THEN doc.payload[1] ELSE NoPayload
LocalBusiness(doc) == IF doc.json_ld # None THEN doc.json_ld[1] ELSE NoLocalBusiness

overall_average_rating(doc) ==
    LET from_elem == IF doc.score_elem # None /\ doc.score_elem[1].valid
                     THEN Some(doc.score_elem[1].value) ELSE None
    IN  Override(Override(from_elem, ValidPayload(doc).reviewScore), LocalBusiness(doc).ratingValue)

total_review_count(doc) ==
    LET from_elem == IF doc.count_elem # None /\ doc.count_elem[1].matched
                     THEN Some(doc.count_elem[1].value) ELSE Some(0)
    IN  Override(Override(from_elem, ValidPayload(doc).reviews), LocalBusiness(doc).reviewCount)

\* float(match.group(1)) outside any try: text such as "1.2.3" raises
AvvoRatingRaises(doc) ==
    doc.avvo_elem # None /\ doc.avvo_elem[1].matched /\ ~doc.avvo_elem[1].valid

avvo_rating(doc) ==
    LET from_elem == IF doc.avvo_elem # None /\ doc.avvo_elem[1].matched
                     THEN Some(doc.avvo_elem[1].value) ELSE None
    IN  Override(from_elem, ValidPayload(doc).rating)

company_website(doc) == Override(website_from_links(doc), LocalBusiness(doc).sameAs)

\* makesOffer, then the fees section: used when nothing is set, else a
\* trailing "%" of the JSON-LD text is stripped
retainer_info(doc) ==
    LET from_ld == Override(None, LocalBusiness(doc).makesOffer)
    IN  IF doc.fees_retainer = None THEN from_ld
        ELSE IF from_ld = None \/ from_ld[1].text = <<>>
             THEN Some([text |-> doc.fees_retainer[1], percent |-> FALSE, src |-> "fees"])
        ELSE [from_ld EXCEPT ![1].percent = FALSE]

\* ----- reviews -----------------------------------------------------------------
\* A container is [pos, title, content, response]: its place in the document,
\* the text of its own h4 (None without one), the span texts of its
\* client-review-content div (None without one) and, with a nested attorney
\* response, the text of the response's h4 (None without one).
FilteredSpans == {"", "...", "See Full Review"}

\* container.find('h4'): the first h4 of the subtree, the response's included
title_elem(container) ==
    IF container.title # None THEN container.title
    ELSE IF container.response # None THEN container.response[1].h4
    ELSE None

\* ' '.join(text_parts).strip()
review_text(container) ==
    IF container.content = None THEN None
    ELSE Some(SelectSeq(container.content[1], LAMBDA x : x \notin FilteredSpans))

attorney_response_name(container) ==
    IF container.response = None THEN None ELSE container.response[1].h4

review_data(container) ==
    [pos |-> container.pos,
     review_title |-> title_elem(container),
     review_text |-> review_text(container),
     attorney_response_name |-> attorney_response_name(container)]

\* if review_data['review_text'] or review_data['review_title']
Kept(rd) ==
    \/ rd.review_text # None /\ rd.review_text[1] # <<>>
    \/ rd.review_title # None /\ rd.review_title[1] # ""

reviews_of(doc) ==
    SelectSeq([i \in DOMAIN doc.containers |-> review_data(doc.containers[i])], Kept)

\* ----- the call ----------------------------------------------------------------
\* the returned (data, reviews), or the exception that leaves the function
extract_data_from_soup(doc) ==
    IF AvvoRatingRaises(doc) THEN [outcome |-> "raised"]
    ELSE [outcome |-> "returned",
          data |-> [profile_url |-> doc.canonical,
                    nomenclature |-> Nomenclature(doc.canonical),
                    company_website |-> company_website(doc),
                    overall_average_rating |-> overall_average_rating(doc),
                    total_review_count |-> total_review_count(doc),
                    avvo_rating |-> avvo_rating(doc),
                    retainer_info |-> retainer_info(doc),
                    total_reviews_extracted |-> Len(reviews_of(doc))],
          reviews |-> reviews_of(doc)]

\* ----- inputs ------------------------------------------------------------------
TokenValues == {<<>>, <<"9">>, <<"j", "j">>, <<"J">>, <<"9", "j">>}
Identifiers == UNION {{join("-", ts) : ts \in [1..n -> TokenValues]} : n \in 1..MaxTokens}
IdentityDocs ==
    {[DefaultDoc EXCEPT !.canonical = Some([attorney |-> TRUE, id |-> x])] : x \in Identifiers}
    \cup {[DefaultDoc EXCEPT !.canonical = Some([attorney |-> FALSE, id |-> <<>>])]}

JsonNumbers(v) == {None, Some(None), Some(Some(v))}
RatingDocs ==
    {[DefaultDoc EXCEPT
        !.score_elem = s, !.count_elem = c, !.avvo_elem = a,
        !.payload = p, !.json_ld = l]
      : s \in {None, Some([valid |-> TRUE, value |-> 1]), Some([valid |-> FALSE, value |-> 0])},
        c \in {None, Some([matched |-> TRUE, value |-> 1])},
        a \in {None, Some([matched |-> TRUE, valid |-> TRUE, value |-> 1]),
               Some([matched |-> TRUE, valid |-> FALSE, value |-> 0]),
               Some([matched |-> FALSE, valid |-> FALSE, value |-> 0])},
        p \in {None, Some([NoPayload EXCEPT !.valid = FALSE])}
              \cup {Some([valid |-> TRUE, reviewScore |-> x, reviews |-> x, rating |-> x])
                      : x \in JsonNumbers(2)},
        l \in {None} \cup {Some([NoLocalBusiness EXCEPT !.ratingValue = x, !.reviewCount = x])
                             : x \in {None, Some(Some(3))}}}

WebsiteHrefs == {None, Some("#"), Some("avvo"), Some("site")}
RetainerTexts ==
    {None, Some(Some([text |-> <<"r">>, percent |-> FALSE, src |-> "ld"])),
     Some(Some([text |-> <<"r">>, percent |-> TRUE, src |-> "ld"]))}
ContactDocs ==
    {[DefaultDoc EXCEPT
        !.cta_website = a, !.contact_website = b, !.fees_retainer = f,
        !.json_ld = Some([NoLocalBusiness EXCEPT !.sameAs = s, !.makesOffer = m])]
      : a \in WebsiteHrefs, b \in {None, Some("site2")}, f \in {None, Some(<<"f">>)},
        s \in {None, Some(Some("site3"))}, m \in RetainerTexts}

TitleValues == {None, Some(""), Some("t")}
ContentValues == {None, Some(<<>>), Some(<<"...">>), Some(<<"b">>), Some(<<"b", "See Full Review">>)}
ResponseValues == {None, Some([h4 |-> None]), Some([h4 |-> Some("n")])}
ContainerKinds ==
    {[title |-> t, content |-> c, response |-> r]
        : t \in TitleValues, c \in ContentValues, r \in ResponseValues}
ReviewDocs ==
    {[DefaultDoc EXCEPT !.containers =
          [i \in DOMAIN f |-> [pos |-> i, title |-> f[i].title, content |-> f[i].content,
                           response |-> f[i].response]]]
        : f \in UNION {[1..k -> ContainerKinds] : k \in 1..MaxDocReviews}}

Documents == IdentityDocs \cup RatingDocs \cup ContactDocs \cup ReviewDocs

InitExtract ==
    /\ ScrapeIdle /\ BatchIdle /\ RowsIdle /\ DateIdle /\ ConfigIdle
    /\ document \in {Some(d) : d \in Documents}
    /\ extracted = None

\* data, reviews = _extract_data_from_soup(soup)
ExtractData ==
    /\ extracted = None
    /\ extracted' = Some(extract_data_from_soup(document[1]))
    /\ UNCHANGED <<document, scrapeVars, batchVars, rowVars, dateVars, configVars>>

NextExtract == ExtractData

SpecExtract == InitExtract /\ [][NextExtract]_vars

\* ----- properties of the extraction ------------------------------------------
Extracted == extracted # None
ReturnedData == extracted # None /\ extracted[1].outcome = "returned"

\* C16: an identifier of n >= 3 dash-separated tokens gives the first token as
\* zip code, the upper-cased second as state code, the last as profile id and,
\* with middle tokens, their title-cased join by spaces as name.
C16_IdentifierDecomposition ==
    (/\ ReturnedData /\ document[1].canonical # None
     /\ document[1].canonical[1].attorney /\ document[1].canonical[1].id # <<>>)
    => LET parts == split(document[1].canonical[1].id, "-")
           n == extracted[1].data.nomenclature
       IN  Len(parts) >= 3 =>
              /\ n.nomenclature_zip_code = Some(parts[1])
              /\ n.nomenclature_state_code = Some(upper(parts[2]))
              /\ n.nomenclature_profile_id = Some(parts[Len(parts)])
              /\ Len(parts) >= 4 =>
                    n.nomenclature_name = Some(title(join(" ", SubSeq(parts, 3, Len(parts) - 1))))

\* C18: a review container is in the extracted list exactly when it has a
\* title of its own or body text of its own, whatever response it carries.
HasOwnTitle(c) == c.title # None /\ c.title[1] # ""
HasOwnBody(c) == c.content # None /\ \E i \in DOMAIN c.content[1] : c.content[1][i] \notin FilteredSpans
C18_DiscardInvariant ==
    ReturnedData =>
       \A i \in DOMAIN document[1].containers :
          LET c == document[1].containers[i]
          IN  (HasOwnTitle(c) \/ HasOwnBody(c))
              <=> \E j \in DOMAIN extracted[1].reviews : extracted[1].reviews[j].pos = c.pos

\* C19: for each of the five fields the value of the first strategy, in the
\* order they are applied, that yields a value is the final value.
JsonValue(key) == IF key = None THEN None ELSE key[1]
FirstSuccess(yields, default) ==
    IF \A i \in DOMAIN yields : yields[i] = None THEN default
    ELSE yields[CHOOSE i \in DOMAIN yields :
                   yields[i] # None /\ \A j \in 1..(i - 1) : yields[j] = None]
C19_FirstSuccessWins ==
    ReturnedData =>
       LET doc == document[1]
           data == extracted[1].data
           p == ValidPayload(doc)
           l == LocalBusiness(doc)
           fees == IF doc.fees_retainer = None THEN None
                   ELSE Some([text |-> doc.fees_retainer[1], percent |-> FALSE, src |-> "fees"])
           retainer == FirstSuccess(<<JsonValue(l.makesOffer), fees>>, None)
       IN  /\ data.overall_average_rating =
                 FirstSuccess(<<IF doc.score_elem # None /\ doc.score_elem[1].valid
                                THEN Some(doc.score_elem[1].value) ELSE None,
                                JsonValue(p.reviewScore), JsonValue(l.ratingValue)>>, None)
           /\ data.total_review_count =
                 FirstSuccess(<<IF doc.count_elem # None /\ doc.count_elem[1].matched
                                THEN Some(doc.count_elem[1].value) ELSE None,
                                JsonValue(p.reviews), JsonValue(l.reviewCount)>>, Some(0))
           /\ data.avvo_rating =
                 FirstSuccess(<<IF doc.avvo_elem # None /\ doc.avvo_elem[1].matched
                                THEN Some(doc.avvo_elem[1].value) ELSE None,
                                JsonValue(p.rating)>>, None)
           /\ data.company_website =
                 FirstSuccess(<<IF UsableHref(doc.cta_website) THEN doc.cta_website ELSE None,
                                IF UsableHref(doc.contact_website) THEN doc.contact_website
                                ELSE None,
                                JsonValue(l.sameAs)>>, None)
           /\ (data.retainer_info = None) = (retainer = None)
           /\ retainer # None =>
                 /\ data.retainer_info[1].text = retainer[1].text
                 /\ data.retainer_info[1].src = retainer[1].src

\* C20: the call returns for every document, and a rating element that is
\* missing, or whose text is not a valid number, leaves its field at the
\* default when no JSON source sets it.
C20_ExtractionNeverFails ==
    Extracted =>
       /\ extracted[1].outcome = "returned"
       /\ LET doc == document[1]
               data == extracted[1].data
           IN  (doc.payload = None /\ doc.json_ld = None) =>
                  /\ (doc.avvo_elem = None \/ ~doc.avvo_elem[1].valid) => data.avvo_rating = None
                  /\ (doc.score_elem = None \/ ~doc.score_elem[1].valid)
                        => data.overall_average_rating = None
                  /\ doc.count_elem = None => data.total_review_count = Some(0)

\* ===== the configuration of a run: DAYS_BACK and the cutoff ==================
\* ----- bounds ----------------------------------------------------------------
MaxDays == 2              \* largest day count written in the file or on the command line
MaxConfigLines == 2       \* DAYS_BACK lines of the URLs file

\* ----- program constants -----------------------------------------------------
DAYS_BACK_DEFAULT == 365

\* ----- values ----------------------------------------------------------------
\* What follows "DAYS_BACK=" on a line of the file, or sys.argv[1]: the word
\* "none" in any case, the decimal text of an integer, or any other text.
NoneWord == [kind |-> "none", value |-> 0]
Junk == [kind |-> "junk", value |-> 0]
IntText(n) == [kind |-> "int", value |-> n]
ConfigTexts == {NoneWord, Junk} \cup {IntText(n) : n \in 0..MaxDays}

\* the loop of read_urls_from_file over the DAYS_BACK lines: "none" stores
\* None, an integer is stored, int() raising ValueError leaves days_back alone
RECURSIVE read_urls_from_file(_, _)
read_urls_from_file(lines, days) ==
    IF lines = <<>> THEN days
    ELSE read_urls_from_file(Tail(lines),
            CASE Head(lines).kind = "none" -> None
              [] Head(lines).kind = "int" -> Some(Head(lines).value)
              [] OTHER -> days)

\* DAYS_BACK after "command line > file > default": the outcome is "raised"
\* when int(sys.argv[1]) raises ValueError, which nothing catches
ResolveFromFile(from_file) == IF from_file # None THEN from_file ELSE Some(DAYS_BACK_DEFAULT)

Resolve(from_file, arg) ==
    IF arg = None THEN [outcome |-> "set", value |-> ResolveFromFile(from_file)]
    ELSE CASE arg[1].kind = "none" -> [outcome |-> "set", value |-> None]
           [] arg[1].kind = "int" -> [outcome |-> "set", value |-> Some(arg[1].value)]
           [] OTHER -> [outcome |-> "raised", value |-> None]

\* csv_filter_info: "Last N days (from DAY)" or "All reviews (no date filter)"
CsvFilterInfo(days, cutoff) ==
    IF days # None /\ days[1] # 0
    THEN [filter |-> "last", days |-> days[1], from |-> strftime(cutoff[1])]
    ELSE [filter |-> "all", days |-> 0, from |-> 0]

\* ----- the run ---------------------------------------------------------------
ConfigLines == UNION {[1..n -> ConfigTexts] : n \in 0..MaxConfigLines}
RunTimes == {Midnight(Today), Midnight(Today) + 1}

ConfigScrapeIdle ==
    /\ pc = "idle" /\ days_back = None /\ cutoff_date = None
    /\ main_soup = BlankPage /\ page_source = BlankPage /\ should_stop_main = FALSE
    /\ review_page_urls = <<>> /\ next_url = 1 /\ page_num = 2
    /\ consecutive_empty_pages = 0 /\ all_reviews_html = <<>> /\ result = Pending
    /\ profile_page = BlankPage /\ discovered = <<>> /\ fetched = <<>>

InitConfig ==
    /\ ConfigScrapeIdle /\ BatchIdle /\ RowsIdle /\ ExtractIdle /\ DateIdle
    /\ now \in RunTimes
    /\ argv \in {None} \cup {Some(t) : t \in ConfigTexts}
    /\ file_lines \in ConfigLines
    /\ has_urls \in BOOLEAN
    /\ config_pc = "read"
    /\ days_back_from_file = None
    /\ DAYS_BACK = None
    /\ csv_filter_info = None
    /\ compared = None

configScrapeRest == <<pc, main_soup, page_source, should_stop_main, review_page_urls, next_url,
                      page_num, consecutive_empty_pages, all_reviews_html, result,
                      profile_page, discovered, fetched>>

\* urls, days_back_from_file = read_urls_from_file(URLS_FILE); without a URL
\* the program exits
ReadUrlsFile ==
    /\ config_pc = "read"
    /\ days_back_from_file' = read_urls_from_file(file_lines, None)
    /\ config_pc' = IF has_urls THEN "resolve" ELSE "exit"
    /\ UNCHANGED <<argv, file_lines, has_urls, DAYS_BACK, csv_filter_info, compared>>
    /\ UNCHANGED <<scrapeVars, batchVars, rowVars, extractVars, dateVars>>

\* DAYS_BACK is determined
ResolveDaysBack ==
    /\ config_pc = "resolve"
    /\ LET r == Resolve(days_back_from_file, argv)
       IN  /\ DAYS_BACK' = r.value
           /\ config_pc' = IF r.outcome = "raised" THEN "crashed" ELSE "scrape"
    /\ UNCHANGED <<argv, file_lines, has_urls, days_back_from_file, csv_filter_info, compared>>
    /\ UNCHANGED <<scrapeVars, batchVars, rowVars, extractVars, dateVars>>

\* scrape_and_convert_to_csv(url, DAYS_BACK): the cutoff and the filter
\* information are computed
StartScrape ==
    /\ config_pc = "scrape"
    /\ days_back' = DAYS_BACK
    /\ cutoff_date' = CutoffDate(DAYS_BACK, now)
    /\ csv_filter_info' = Some(CsvFilterInfo(DAYS_BACK, cutoff_date'))
    /\ config_pc' = "filter"
    /\ UNCHANGED <<argv, file_lines, has_urls, days_back_from_file, DAYS_BACK, compared>>
    /\ UNCHANGED <<now, configScrapeRest, batchVars, rowVars, extractVars, dateVars>>

\* if cutoff_date: the loop over the main-page reviews looks at a review dated
\* on the day of the cutoff, the day before or the day after
CompareMainReview ==
    /\ config_pc = "filter"
    /\ cutoff_date # None
    /\ \E d \in {strftime(cutoff_date[1]) + k : k \in {-1, 0, 1}} :
          LET review == [src |-> 1, pos |-> 1, has_text |-> TRUE,
                         date_str |-> [fmt |-> "long", day |-> d]]
          IN  compared' = Some([day |-> d, too_old |-> IsTooOld(review, cutoff_date)])
    /\ config_pc' = "filtered"
    /\ UNCHANGED <<argv, file_lines, has_urls, days_back_from_file, DAYS_BACK, csv_filter_info>>
    /\ UNCHANGED <<scrapeVars, batchVars, rowVars, extractVars, dateVars>>

NextConfig == ReadUrlsFile \/ ResolveDaysBack \/ StartScrape \/ CompareMainReview

SpecConfig == InitConfig /\ [][NextConfig]_vars

\* ----- properties of the configuration --------------------------------------
ScrapeStarted == config_pc \in {"filter", "filtered"}

\* C22: for every integer day count N that is the effective DAYS_BACK, 0
\* included, the filter is on with cutoff = now - N days; the filter is off
\* only when the effective DAYS_BACK is None.
C22_CutoffConfiguration ==
    ScrapeStarted =>
       IF DAYS_BACK = None
       THEN cutoff_date = None /\ csv_filter_info[1].filter = "all"
       ELSE /\ cutoff_date = Some(now - timedelta(DAYS_BACK[1]))
            /\ csv_filter_info[1].filter = "last"

\* C23: the effective DAYS_BACK is the command-line value when there is one,
\* else the value of the file when the file sets one, else 365; "none" on the
\* command line or in the file gives None, so a file that says DAYS_BACK=none,
\* with no command-line argument, gives a run without a date filter.
IsSetting(t) == t.kind \in {"none", "int"}
ValueOf(t) == IF t.kind = "none" THEN None ELSE Some(t.value)
Settings(lines) == SelectSeq(lines, IsSetting)
EffectiveDaysBack ==
    IF argv # None THEN ValueOf(argv[1])
    ELSE IF Settings(file_lines) # <<>> THEN ValueOf(Last(Settings(file_lines)))
    ELSE Some(DAYS_BACK_DEFAULT)
C23_DaysBackResolution ==
    ScrapeStarted => /\ DAYS_BACK = EffectiveDaysBack
                     /\ EffectiveDaysBack = None => cutoff_date = None

\* C30: a review dated on the day reported as the filter's "from" date is not
\* too old, a review dated on an earlier day is, at whatever time of day the
\* run started.
C30_CutoffBoundary ==
    compared # None =>
       (compared[1].too_old <=> compared[1].day < csv_filter_info[1].from)

====
